---- MODULE Spec2Model ----
(***************************************************************************)
(* Model of local_ai_ocr: the image geometry normaliser, the PDF page      *)
(* rasteriser and the image ingest (file_handler.py), the background image *)
(* loader (ui/image_loader.py), the LaTeX delimiter balancer and the       *)
(* math-protected Markdown renderer (ui/output_panel.py).                  *)
(*                                                                         *)
(* Text is modelled character by character: a string is a sequence of      *)
(* one-character strings.  Positions are 1-based; a match [start, end) of  *)
(* Python becomes [start, end) with both ends shifted by one.              *)
(***************************************************************************)
EXTENDS Integers, Sequences, FiniteSets, TLC

VARIABLES
    pad,          \* outcome of the last pad_image call
    pdf,          \* outcome of the last extract_pdf_page_bytes call
    bal,          \* outcome of the last balance_latex_delimiters call
    text_output,  \* OutputPanel.text_output: the raw text accumulated so far
    web_html,     \* FancyOutput: the document the web view shows
    tab_enabled,  \* OutputPanel.tabs: whether the fancy tab is enabled
    tab_index,    \* OutputPanel.tabs: the current tab (0 raw, 1 fancy)
    last_render,  \* locals of the last FancyOutput.set_markdown call
    appended,     \* number of append_text calls since the panel was cleared
    ingest,       \* outcome of the last get_image_bytes call
    loader        \* ImageLoaderThread: its fields, its position, its signals

panelVars == <<text_output, web_html, tab_enabled, tab_index, last_render>>
ioVars == <<ingest, loader>>
vars == <<pad, pdf, bal, panelVars, appended, ioVars>>

(***************************************************************************)
(* Small arithmetic helpers.                                               *)
(***************************************************************************)
Min(a, b) == IF a <= b THEN a ELSE b
Max(a, b) == IF a >= b THEN a ELSE b

RECURSIVE Pow2(_)
Pow2(n) == IF n <= 0 THEN 1 ELSE 2 * Pow2(n - 1)

IsPow2(n) == \E e \in 0..30 : Pow2(e) = n

\* floor(log2(a / b)) for integers a, b >= 1: the binary exponent of the
\* quotient a / b (negative when a < b).
FloorLog2(a, b) ==
    IF a >= b
    THEN CHOOSE f \in 0..30 : b * Pow2(f) <= a /\ a < b * Pow2(f + 1)
    ELSE -(CHOOSE g \in 1..30 : a * Pow2(g) >= b /\ a * Pow2(g - 1) < b)

\* (a * 2^k) mod b by repeated doubling (keeps every intermediate below 2b).
RECURSIVE PowMod(_, _, _)
PowMod(a, k, b) == IF k <= 0 THEN a % b ELSE (2 * PowMod(a, k - 1, b)) % b

(***************************************************************************)
(* file_handler.pad_image                                                  *)
(*                                                                         *)
(* Python computes  scale = min(tw / w, th / h)  and  int(dim * scale)  in *)
(* IEEE-754 binary64.  FloatScaled(x, a, b) is int(x * (a / b)) with both  *)
(* roundings done exactly: the quotient a / b is rounded to a 53-bit       *)
(* significand q (q * 2^-k with k = 52 - floor(log2(a/b)));  r is the      *)
(* remainder of a * 2^k by b, so the rounded quotient lies below a / b     *)
(* exactly when 0 < 2r < b.  The product x * q is exact before its own     *)
(* rounding; when x*a/b is an integer n and q lies below a / b the product *)
(* is n - x*r/(b*2^k), which rounds back up to n only when it is within    *)
(* half a unit in the last place below n.  Otherwise truncation gives n-1  *)
(* (for example int(49 * (1024 / 49)) = 1023).                             *)
(***************************************************************************)
TARGET_IMAGE_SIZE == 1024

FloatScaled(x, a, b) ==
    IF (x * a) % b # 0
    THEN (x * a) \div b
    ELSE LET n  == (x * a) \div b
             f  == FloorLog2(a, b)
             r  == PowMod(a, 52 - f, b)
             en == FloorLog2(n, 1)
             halfUlp4 == IF IsPow2(n) THEN b * Pow2(en - f)
                                      ELSE b * Pow2(en - f + 1)
         IN  IF r = 0 \/ 2 * r >= b THEN n
             ELSE IF 4 * x * r <= halfUlp4 THEN n ELSE n - 1

\* scale = min(scale_w, scale_h), kept as the quotient <<a, b>> it was
\* computed from (lines 33-35).  Division is monotone under rounding, so the
\* smaller float is the one with the smaller exact quotient.
Scale(w, h, tw, th) ==
    IF tw * h <= th * w THEN <<tw, w>> ELSE <<th, h>>

\* Pillow's Image.resize refuses an empty size (line 41).
ResizeRaises(nw, nh) == nw < 1 \/ nh < 1

\* No call in progress; PendingPad(w, h, tw, th) is a call about to be made.
NoPad == [status |-> "none", src |-> <<0, 0>>, target |-> <<0, 0>>,
          new |-> <<0, 0>>, offset |-> <<0, 0>>, canvas |-> <<0, 0>>]

PendingPad(w, h, tw, th) ==
    [NoPad EXCEPT !.status = "pending", !.src = <<w, h>>, !.target = <<tw, th>>]

pad_image(w, h, tw, th) ==
    IF w = 0 \/ h = 0
    THEN [NoPad EXCEPT !.status = "ZeroDivisionError",
                       !.src = <<w, h>>, !.target = <<tw, th>>]
    ELSE LET s  == Scale(w, h, tw, th)
             nw == FloatScaled(w, s[1], s[2])
             nh == FloatScaled(h, s[1], s[2])
         IN  IF ResizeRaises(nw, nh)
             THEN [NoPad EXCEPT !.status = "ValueError", !.src = <<w, h>>,
                                !.target = <<tw, th>>, !.new = <<nw, nh>>]
             ELSE [status |-> "ok", src |-> <<w, h>>, target |-> <<tw, th>>,
                   new |-> <<nw, nh>>,
                   offset |-> <<(tw - nw) \div 2, (th - nh) \div 2>>,
                   canvas |-> <<tw, th>>]

MaxSrcDim == 8
MaxTarget == 4

SrcDims    == (0..MaxSrcDim) \cup {49, 98, 1024, 1500, 5000}
TargetDims == (1..MaxTarget) \cup {TARGET_IMAGE_SIZE}

PadImage ==
    /\ pad.status = "pending"
    /\ pad' = pad_image(pad.src[1], pad.src[2], pad.target[1], pad.target[2])
    /\ UNCHANGED <<pdf, bal, panelVars, appended, ioVars>>


(***************************************************************************)
(* Claims about pad_image, checked under SpecGeometry.                     *)
(***************************************************************************)
PadCalled   == pad.status \in {"ok", "ValueError", "ZeroDivisionError"}
PadPositive == pad.src[1] >= 1 /\ pad.src[2] >= 1

\* C1: for every source with width >= 1 and height >= 1 and every target
\* size, pad_image returns a canvas of exactly target_width x target_height.
C1_CanvasIsTarget ==
    (PadCalled /\ PadPositive) =>
        (pad.status = "ok" /\ pad.canvas = pad.target)

\* C2: for every source with w, h >= 1 the source is scaled by
\* min(tw / w, th / h) to exactly (floor(w * scale), floor(h * scale)); both
\* scaled dimensions are at most the target's, the image is pasted at the
\* offsets floor((target - scaled) / 2), which are >= 0, so it lies inside
\* the canvas, and the padding on opposite sides differs by at most one
\* pixel.
C2_ScaledFitsCentred ==
    (PadCalled /\ PadPositive) =>
        LET w  == pad.src[1]     h  == pad.src[2]
            tw == pad.target[1]  th == pad.target[2]
            nw == pad.new[1]     nh == pad.new[2]
            x  == pad.offset[1]  y  == pad.offset[2]
            a  == IF tw * h <= th * w THEN tw ELSE th
            b  == IF tw * h <= th * w THEN w ELSE h
        IN  /\ a * w <= tw * b /\ a * h <= th * b
            /\ nw = (w * a) \div b
            /\ nh = (h * a) \div b
            /\ nw <= tw /\ nh <= th
            /\ pad.status = "ok"
            /\ x = (tw - nw) \div 2 /\ y = (th - nh) \div 2
            /\ x >= 0 /\ y >= 0
            /\ x + nw <= tw /\ y + nh <= th
            /\ (tw - nw - x) - x \in {0, 1}
            /\ (th - nh - y) - y \in {0, 1}

\* C11: pad_image called with a source whose width or height is 0 fails with
\* a dedicated InvalidGeometry error, never with a divide-by-zero error.
C11_ZeroDimsInvalidGeometry ==
    (PadCalled /\ ~PadPositive) => pad.status = "InvalidGeometry"

\* C17: for every source with width >= 1 and height >= 1 the scaled size has
\* both dimensions >= 1, so resize is given a non-empty size and the canvas
\* holds a non-empty copy of the source.
C17_ScaledNonEmpty ==
    (PadCalled /\ PadPositive) =>
        /\ pad.new[1] >= 1 /\ pad.new[2] >= 1
        /\ ~ResizeRaises(pad.new[1], pad.new[2])

(***************************************************************************)
(* file_handler.extract_pdf_page_bytes                                     *)
(*                                                                         *)
(* Page sizes are whole points and the zoom is kept as the exact quotient  *)
(* <<n, d>> the code divides out (dpi / 72.0, 3000 / max(w, h), 0.5).      *)
(***************************************************************************)
MAX_DIM == 3000

\* A zoom <<n, d>> compared with another, both with positive denominators.
ZoomLess(z1, z2) == z1[1] * z2[2] < z2[1] * z1[2]

\* fitz.Document.load_page: an index >= page_count raises ValueError("page
\* not in document"); a negative index counts backwards from the end
\* (page_count is added until the index is >= 0).  -1 stands for "no page".
load_page(page_count, page_index) ==
    IF page_index >= page_count THEN -1
    ELSE IF page_index < 0 THEN page_index % page_count
    ELSE page_index

\* Mutant of Zoom: the cap divides by the smaller page dimension.
ZoomCapMin(width, height, target_dpi) ==
    LET base   == <<target_dpi, 72>>
        capped == IF width * target_dpi > MAX_DIM * 72
                     \/ height * target_dpi > MAX_DIM * 72
                  THEN <<MAX_DIM, Min(width, height)>>
                  ELSE base
    IN  IF ZoomLess(capped, <<1, 2>>) THEN <<1, 2>> ELSE capped

\* Lines 108-113: base zoom, the cap to MAX_DIM, the 0.5 floor.
Zoom(width, height, target_dpi) ==
    LET base   == <<target_dpi, 72>>
        capped == IF width * target_dpi > MAX_DIM * 72
                     \/ height * target_dpi > MAX_DIM * 72
                  THEN <<MAX_DIM, Max(width, height)>>
                  ELSE base
    IN  IF ZoomLess(capped, <<1, 2>>) THEN <<1, 2>> ELSE capped

\* page.get_pixmap: the page rectangle scaled by the zoom and rounded to whole
\* pixels the way MuPDF rounds a rectangle anchored at the origin,
\* ceil(x - 0.001).
PixDim(dim, z) ==
    LET q == (dim * z[1]) \div z[2]
        r == (dim * z[1]) % z[2]
    IN  IF 1000 * r <= z[2] THEN q ELSE q + 1

NoPdf == [status |-> "none", page_count |-> 0, page_index |-> 0,
          rect |-> <<0, 0>>, dpi |-> 0, page |-> -1, zoom |-> <<0, 1>>,
          pix |-> <<0, 0>>, img |-> NoPad]

PendingPdf(count, index, w, h, dpi) ==
    [NoPdf EXCEPT !.status = "pending", !.page_count = count,
                  !.page_index = index, !.rect = <<w, h>>, !.dpi = dpi]

extract_pdf_page_bytes(req) ==
    LET page == load_page(req.page_count, req.page_index)
    IN  IF page = -1
        THEN [req EXCEPT !.status = "ValueError"]
        ELSE LET z   == Zoom(req.rect[1], req.rect[2], req.dpi)
                 pw  == PixDim(req.rect[1], z)
                 ph  == PixDim(req.rect[2], z)
                 img == pad_image(pw, ph, TARGET_IMAGE_SIZE, TARGET_IMAGE_SIZE)
             IN  [req EXCEPT !.status = img.status, !.page = page, !.zoom = z,
                             !.pix = <<pw, ph>>, !.img = img]

(***************************************************************************)
(* file_handler.preprocess_image and file_handler.get_image_bytes          *)
(*                                                                         *)
(* An image is its Pillow mode, whether its info dictionary has the key    *)
(* 'transparency', its size, and one probe pixel: the colour the pixel     *)
(* stores and whether the image marks it fully transparent (alpha 0, or a  *)
(* palette / colour key entry named by 'transparency').                    *)
(***************************************************************************)
WHITE == "white"
BLACK == "black"

\* Pillow modes that carry an alpha band.
AlphaModes == {"RGBA", "LA", "PA"}

\* Lines 56-63: which branch the mode selects.
Branch(img) ==
    IF img.mode \in {"RGBA", "LA"} \/ (img.mode = "P" /\ img.transparency)
    THEN "flatten"
    ELSE IF img.mode # "RGB" THEN "convert" ELSE "keep"

\* The probe pixel of the RGB image handed to pad_image.  Pasting through
\* the alpha mask onto the white background leaves white where alpha is 0
\* (lines 57-61); convert('RGB') keeps the stored colour and drops the alpha
\* band (line 63).
Flattened(img, branch) ==
    IF branch = "flatten" /\ img.clear THEN WHITE ELSE img.colour

NoImage == [mode |-> "RGB", transparency |-> FALSE, size |-> <<0, 0>>,
            clear |-> FALSE, colour |-> WHITE]
NoBytes == [kind |-> "none", mode |-> "", size |-> <<0, 0>>, pixel |-> ""]
NoPre   == [status |-> "none", branch |-> "none", handed |-> "none",
            pixel |-> "", pad |-> NoPad, png |-> NoBytes]

\* Steps of get_image_bytes that can raise besides pad_image itself:
\* Image.open (line 76), the loading of the pixel data by the first
\* operation that needs it (convert, line 57 or 63, or resize, line 41,
\* which an RGB image reaches after the divisions of lines 33-34), and
\* img.save (line 70).
IngestSteps == {"open", "load", "save"}

\* preprocess_image(img) when the step `raised` raises ("none": nothing
\* does): the branch taken, the mode and probe pixel of the image handed to
\* pad_image, the outcome of pad_image and the PNG bytes returned.  A failing
\* load ends the call in convert (lines 57, 63) before pad_image is reached;
\* an RGB image is handed to pad_image untouched, and the load fails inside
\* it, in resize (line 41), after the scaled size was computed.
preprocess_image(img, raised) ==
    LET branch == Branch(img)
        pixel  == Flattened(img, branch)
        outcome(padded) ==
            IF raised = "load" /\ branch # "keep"
            THEN [NoPre EXCEPT !.status = "OSError", !.branch = branch]
            ELSE IF raised = "load" /\ padded.status # "ZeroDivisionError"
            THEN [NoPre EXCEPT !.status = "OSError", !.branch = branch,
                               !.handed = "RGB", !.pixel = pixel,
                               !.pad = [NoPad EXCEPT !.status = "OSError",
                                                     !.src = padded.src,
                                                     !.target = padded.target,
                                                     !.new = padded.new]]
            ELSE IF padded.status # "ok"
            THEN [NoPre EXCEPT !.status = padded.status, !.branch = branch,
                               !.handed = "RGB", !.pixel = pixel, !.pad = padded]
            ELSE IF raised = "save"
            THEN [NoPre EXCEPT !.status = "OSError", !.branch = branch,
                               !.handed = "RGB", !.pixel = pixel, !.pad = padded]
            ELSE [status |-> "ok", branch |-> branch, handed |-> "RGB",
                  pixel |-> pixel, pad |-> padded,
                  png |-> [kind |-> "png", mode |-> "RGB",
                           size |-> padded.canvas, pixel |-> pixel]]
    IN  outcome(pad_image(img.size[1], img.size[2],
                          TARGET_IMAGE_SIZE, TARGET_IMAGE_SIZE))

\* f.read() of the file: the bytes on disk, whatever they encode.
RawBytes(img) ==
    [kind |-> "raw", mode |-> img.mode, size |-> img.size, pixel |-> img.colour]

NoIngest == [status |-> "none", img |-> NoImage, raised |-> "none",
             pre |-> NoPre, result |-> NoBytes]

PendingIngest(img, raised) ==
    [NoIngest EXCEPT !.status = "pending", !.img = img, !.raised = raised]

\* Mutant of get_image_bytes: no handler, the exception leaves the function.
get_image_bytes_unguarded(req) ==
    LET outcome(pre) ==
            IF pre.status = "ok"
            THEN [req EXCEPT !.status = "returned", !.pre = pre,
                             !.result = pre.png]
            ELSE [req EXCEPT !.status = "raised", !.pre = pre]
    IN  outcome(IF req.raised = "open"
                THEN [NoPre EXCEPT !.status = "UnidentifiedImageError"]
                ELSE preprocess_image(req.img, req.raised))

\* get_image_bytes(filepath) for a file that can be read from disk (lines
\* 73-82): the PNG bytes of preprocess_image, or the raw bytes of the file
\* when Image.open or any step of preprocess_image raised.
get_image_bytes(req) ==
    LET outcome(pre) ==
            IF pre.status = "ok"
            THEN [req EXCEPT !.status = "returned", !.pre = pre,
                             !.result = pre.png]
            ELSE [req EXCEPT !.status = "returned", !.pre = pre,
                             !.result = RawBytes(req.img)]
    IN  outcome(IF req.raised = "open"
                THEN [NoPre EXCEPT !.status = "UnidentifiedImageError"]
                ELSE preprocess_image(req.img, req.raised))

(***************************************************************************)
(* ui/image_loader.ImageLoaderThread                                       *)
(*                                                                         *)
(* run() executes in the worker thread and cancel() in the thread of the   *)
(* caller, so the statements of run() interleave with cancel().  pc is the *)
(* line run() is about to execute; emitted lists the signals sent, each    *)
(* with the value _is_cancelled had when emit was called.                  *)
(***************************************************************************)
NoLoader == [pc |-> "none", page_index |-> -1, image |-> NoIngest,
             page |-> NoPdf, is_cancelled |-> FALSE, img_bytes |-> NoBytes,
             exception |-> "none", emitted |-> <<>>,
             cancel_pc |-> "idle", cancels |-> 0]

\* ImageLoaderThread.__init__ (lines 18-22): a thread for an image file
\* (page_index -1) or for a page of a document, not yet started.
NewLoader(page_index, image, page) ==
    [NoLoader EXCEPT !.pc = "created", !.page_index = page_index,
                     !.image = image, !.page = page]

\* Lines 28-33: the bytes loaded, or the exception the load raised.
Load(ld) ==
    IF ld.page_index = -1
    THEN LET r == get_image_bytes(ld.image)
         IN  [raised |-> "none", img_bytes |-> r.result]
    ELSE LET r == extract_pdf_page_bytes(ld.page)
         IN  IF r.status = "ok"
             THEN [raised |-> "none",
                   img_bytes |-> [kind |-> "png", mode |-> "RGB",
                                  size |-> r.img.canvas, pixel |-> WHITE]]
             ELSE [raised |-> r.status, img_bytes |-> NoBytes]

\* signal.emit(payload), as seen by the receiver.
Emit(ld, signal, payload) ==
    Append(ld.emitted, [signal |-> signal, payload |-> payload,
                        after_cancel |-> ld.is_cancelled])

IdleIo == ingest = NoIngest /\ loader = NoLoader

(***************************************************************************)
(* ui/output_panel.balance_latex_delimiters                                *)
(***************************************************************************)
BS     == "\\"
LEFT   == <<BS, "l", "e", "f", "t">>
RIGHT  == <<BS, "r", "i", "g", "h", "t">>
\* r" \right." (line 77)
CLOSER == <<" ">> \o RIGHT \o <<".">>

\* s[i .. i + Len(pat) - 1] = pat
StartsAt(s, i, pat) ==
    /\ i >= 1
    /\ i + Len(pat) - 1 <= Len(s)
    /\ SubSeq(s, i, i + Len(pat) - 1) = pat

RECURSIVE Repeat(_, _)
Repeat(s, n) == IF n <= 0 THEN <<>> ELSE s \o Repeat(s, n - 1)

\* The least element of a non-empty set of positions, 0 for the empty set.
First(positions) ==
    IF positions = {} THEN 0
    ELSE CHOOSE j \in positions : \A k \in positions : j <= k

\* First position j >= i where pat starts, or 0 when there is none.
Find(s, pat, i) ==
    First({j \in i..Len(s) : StartsAt(s, j, pat)})

\* First position j >= i where \left or \right starts, or 0.
NextCommand(latex, i) ==
    First({j \in i..Len(latex) :
              StartsAt(latex, j, LEFT) \/ StartsAt(latex, j, RIGHT)})

\* re.finditer(r'(\\left|\\right)', latex) from position i on: the matches
\* left to right, non-overlapping, as (start, end, cmd) (lines 47-49).
RECURSIVE FindCommands(_, _)
FindCommands(latex, i) ==
    LET j   == NextCommand(latex, i)
        cmd == IF StartsAt(latex, j, LEFT) THEN LEFT ELSE RIGHT
    IN  IF j = 0 THEN <<>>
        ELSE <<[start |-> j, end |-> j + Len(cmd), cmd |-> cmd]>>
             \o FindCommands(latex, j + Len(cmd))

\* Mutant of TrackDepth: an unmatched \right is not marked for removal.
RECURSIVE TrackDepthKeep(_, _, _, _)
TrackDepthKeep(commands, k, stack, to_remove) ==
    IF k > Len(commands) THEN [stack |-> stack, to_remove |-> to_remove]
    ELSE IF commands[k].cmd = LEFT
         THEN TrackDepthKeep(commands, k + 1, stack + 1, to_remove)
    ELSE IF stack > 0
         THEN TrackDepthKeep(commands, k + 1, stack - 1, to_remove)
    ELSE TrackDepthKeep(commands, k + 1, stack, to_remove)

\* Lines 51-63: the depth counter and the starts of the unmatched \right.
RECURSIVE TrackDepth(_, _, _, _)
TrackDepth(commands, k, stack, to_remove) ==
    IF k > Len(commands) THEN [stack |-> stack, to_remove |-> to_remove]
    ELSE IF commands[k].cmd = LEFT
         THEN TrackDepth(commands, k + 1, stack + 1, to_remove)
    ELSE IF stack > 0
         THEN TrackDepth(commands, k + 1, stack - 1, to_remove)
    ELSE TrackDepth(commands, k + 1, stack,
                    to_remove \cup {commands[k].start})

\* Lines 66-71: copy the text between the removed commands.
RECURSIVE Rebuild(_, _, _, _, _, _)
Rebuild(latex, commands, to_remove, k, fixed_latex, last_idx) ==
    IF k > Len(commands)
    THEN [fixed_latex |-> fixed_latex, last_idx |-> last_idx]
    ELSE IF commands[k].start \in to_remove
         THEN Rebuild(latex, commands, to_remove, k + 1,
                      fixed_latex \o SubSeq(latex, last_idx, commands[k].start - 1),
                      commands[k].end)
    ELSE Rebuild(latex, commands, to_remove, k + 1, fixed_latex, last_idx)

balance_latex_delimiters(latex) ==
    LET commands == FindCommands(latex, 1)
        t        == TrackDepth(commands, 1, 0, {})
        rb       == Rebuild(latex, commands, t.to_remove, 1, <<>>, 1)
    IN  rb.fixed_latex \o SubSeq(latex, rb.last_idx, Len(latex))
                       \o Repeat(CLOSER, t.stack)

NoBal == [passes |-> 0, input |-> <<>>, output |-> <<>>]

(***************************************************************************)
(* ui/output_panel.FancyOutput.set_markdown and OutputPanel                *)
(***************************************************************************)
OPEN_DISPLAY  == <<BS, "[">>
CLOSE_DISPLAY == <<BS, "]">>
OPEN_INLINE   == <<BS, "(">>
CLOSE_INLINE  == <<BS, ")">>

\* str(n) for n >= 0
RECURSIVE Decimal(_)
Decimal(n) ==
    LET digit == <<"0", "1", "2", "3", "4", "5", "6", "7", "8", "9">>[(n % 10) + 1]
    IN  IF n < 10 THEN <<digit>> ELSE Decimal(n \div 10) \o <<digit>>

\* f"MATHJAXBLOCKPLACEHOLDER{i}END" (lines 104 and 116)
Placeholder(i) ==
    <<"M", "A", "T", "H", "J", "A", "X", "B", "L", "O", "C", "K",
      "P", "L", "A", "C", "E", "H", "O", "L", "D", "E", "R">>
    \o Decimal(i) \o <<"E", "N", "D">>

\* The match of r'(\\\[.*?\\\])|(\\\(.*?\\\))' (DOTALL) anchored at i: the
\* opener at i up to the first closer of the same kind after it; the end
\* position (exclusive), or 0 when nothing matches at i.
MathEnd(s, i) ==
    IF StartsAt(s, i, OPEN_DISPLAY) /\ Find(s, CLOSE_DISPLAY, i + 2) # 0
    THEN Find(s, CLOSE_DISPLAY, i + 2) + 2
    ELSE IF StartsAt(s, i, OPEN_INLINE) /\ Find(s, CLOSE_INLINE, i + 2) # 0
    THEN Find(s, CLOSE_INLINE, i + 2) + 2
    ELSE 0

\* First position j >= i where a math span starts, or 0.
NextMath(md, i) == First({j \in i..Len(md) : MathEnd(md, j) # 0})

\* pattern.sub(replace_math, md_content) from position i on (lines 98-108):
\* every span is balanced, appended to math_blocks and replaced by the
\* placeholder of its index; the text between the spans is kept.
RECURSIVE ExtractMath(_, _, _)
ExtractMath(md, i, blocks) ==
    LET j == NextMath(md, i)
        e == MathEnd(md, j)
        r == ExtractMath(md, e,
                 Append(blocks, balance_latex_delimiters(SubSeq(md, j, e - 1))))
    IN  IF j = 0
        THEN [math_blocks |-> blocks, processed_md |-> SubSeq(md, i, Len(md))]
        ELSE [math_blocks |-> r.math_blocks,
              processed_md |-> SubSeq(md, i, j - 1) \o Placeholder(Len(blocks))
                               \o r.processed_md]

\* Characters a backslash escapes in Markdown (the backquote, which the texts
\* of the model never hold, is left out).
ESCAPED_CHARS == {BS, "*", "_", "{", "}", "[", "]", "(", ")", ">", "#",
                  "+", "-", ".", "!"}

\* A backslash escape starts at j: a backslash followed by an escapable
\* character.
EscapeAt(s, j) == s[j] = BS /\ j < Len(s) /\ s[j + 1] \in ESCAPED_CHARS

\* Inline text of a paragraph from position i on: a backslash escape yields
\* the escaped character, and the serializer escapes &, < and >.
RECURSIVE MarkdownInline(_, _)
MarkdownInline(s, i) ==
    LET j == First({k \in i..Len(s) : EscapeAt(s, k) \/ s[k] \in {"&", "<", ">"}})
    IN  IF j = 0 THEN SubSeq(s, i, Len(s))
        ELSE IF EscapeAt(s, j)
        THEN SubSeq(s, i, j - 1) \o <<s[j + 1]>> \o MarkdownInline(s, j + 2)
        ELSE SubSeq(s, i, j - 1)
             \o (CASE s[j] = "&" -> <<"&", "a", "m", "p", ";">>
                   [] s[j] = "<" -> <<"&", "l", "t", ";">>
                   [] s[j] = ">" -> <<"&", "g", "t", ";">>)
             \o MarkdownInline(s, j + 1)

\* markdown.markdown(processed_md, ...) (line 111) for a text that is a single
\* paragraph of plain characters, placeholders and backslash commands.
Markdown(s) ==
    IF s = <<>> THEN <<>>
    ELSE <<"<", "p", ">">> \o MarkdownInline(s, 1) \o <<"<", "/", "p", ">">>

\* html.escape(block) with quote=True (line 115), from position i on.
RECURSIVE HtmlEscape(_, _)
HtmlEscape(s, i) ==
    LET j == First({k \in i..Len(s) : s[k] \in {"&", "<", ">", "\"", "'"}})
    IN  IF j = 0 THEN SubSeq(s, i, Len(s))
        ELSE SubSeq(s, i, j - 1)
             \o (CASE s[j] = "&"  -> <<"&", "a", "m", "p", ";">>
                   [] s[j] = "<"  -> <<"&", "l", "t", ";">>
                   [] s[j] = ">"  -> <<"&", "g", "t", ";">>
                   [] s[j] = "\"" -> <<"&", "q", "u", "o", "t", ";">>
                   [] s[j] = "'"  -> <<"&", "#", "x", "2", "7", ";">>)
             \o HtmlEscape(s, j + 1)

\* str.replace(old, new) from position i on: every non-overlapping
\* occurrence, left to right.
RECURSIVE Replace(_, _, _, _)
Replace(s, old, new, i) ==
    LET j == Find(s, old, i)
    IN  IF j = 0 THEN SubSeq(s, i, Len(s))
        ELSE SubSeq(s, i, j - 1) \o new \o Replace(s, old, new, j + Len(old))

\* Lines 114-116: restore block k, k + 1, ... in that order.
RECURSIVE Restore(_, _, _)
Restore(html_content, math_blocks, k) ==
    IF k > Len(math_blocks) THEN html_content
    ELSE Restore(Replace(html_content, Placeholder(k - 1),
                         HtmlEscape(math_blocks[k], 1), 1),
                 math_blocks, k + 1)

\* What the view shows: setHtml("") or setHtml(full_html), the document
\* shell (style, MathJax set-up) around the body html_content.
BlankDoc      == [kind |-> "blank", body |-> <<>>]
FullHtml(body) == [kind |-> "document", body |-> body]

NoRender == [raw |-> <<>>, raised |-> "none", math_blocks |-> <<>>,
             processed_md |-> <<>>, html_content |-> <<>>]

\* Steps of the try block that can raise (lines 95-176): the Markdown
\* transform before the placeholders are restored, the assembly of the
\* document shell after it.  One handler (line 177) catches them all.
Steps == {"markdown", "shell"}

\* FancyOutput.set_markdown(md_content) with the view showing `shown`; the
\* step `raised` raises ("none": nothing does).  Gives the document the view
\* shows afterwards and the locals the call computed.  An empty text blanks
\* the view (lines 91-93); an exception is caught and printed (lines
\* 177-178), so setHtml is not reached and the locals are lost.
set_markdown(md_content, raised, shown) ==
    LET e    == ExtractMath(md_content, 1, <<>>)
        html == Restore(Markdown(e.processed_md), e.math_blocks, 1)
    IN  IF md_content = <<>>
        THEN [web_html |-> BlankDoc, locals |-> NoRender]
        ELSE IF raised # "none"
        THEN [web_html |-> shown,
              locals |-> [NoRender EXCEPT !.raw = md_content, !.raised = raised]]
        ELSE [web_html |-> FullHtml(html),
              locals |-> [raw |-> md_content, raised |-> raised,
                          math_blocks |-> e.math_blocks,
                          processed_md |-> e.processed_md,
                          html_content |-> html]]

\* The 29 characters str.isspace() accepts, which str.strip() removes.  A
\* character is a one-character string; the five control characters U+000B
\* and U+001C to U+001F stand in the strings as themselves, and a character
\* outside ASCII, which a string of the model cannot hold, is the text
\* element named by its code point ("U+3000" is the one character U+3000).
WHITESPACE == {"\t", "\n", "\f", "\r", " ", "", "", "", "", "",
               "U+0085", "U+00A0", "U+1680", "U+2000", "U+2001", "U+2002",
               "U+2003", "U+2004", "U+2005", "U+2006", "U+2007", "U+2008",
               "U+2009", "U+200A", "U+2028", "U+2029", "U+202F", "U+205F",
               "U+3000"}

\* str.strip(): s without the whitespace at both ends.
Strip(s) ==
    LET kept == {j \in 1..Len(s) : s[j] \notin WHITESPACE}
    IN  IF kept = {} THEN <<>>
        ELSE SubSeq(s, CHOOSE j \in kept : \A k \in kept : j <= k,
                       CHOOSE j \in kept : \A k \in kept : j >= k)

\* OutputPanel.append_text (lines 247-258)
append_text(text) ==
    /\ tab_index' = 0
    /\ tab_enabled' = FALSE
    /\ text_output' = text_output \o text
    /\ UNCHANGED <<web_html, last_render>>

\* OutputPanel.render_fancy_output (lines 261-269)
render_fancy_output(raised) ==
    IF Strip(text_output) = <<>>
    THEN UNCHANGED panelVars
    ELSE LET r == set_markdown(text_output, raised, web_html)
         IN  /\ web_html' = r.web_html
             /\ last_render' = r.locals
             /\ tab_enabled' = TRUE
             /\ tab_index' = 1
             /\ UNCHANGED text_output

\* OutputPanel.clear (lines 272-276)
clear ==
    LET r == set_markdown(<<>>, "none", web_html)
    IN  /\ text_output' = <<>>
        /\ web_html' = r.web_html
        /\ last_render' = r.locals
        /\ tab_enabled' = FALSE
        /\ tab_index' = 0

IdlePanel ==
    /\ text_output = <<>>
    /\ web_html = BlankDoc
    /\ tab_enabled = FALSE
    /\ tab_index = 0
    /\ last_render = NoRender
    /\ appended = 0

InitGeometry ==
    /\ \E w \in SrcDims, h \in SrcDims, tw \in TargetDims, th \in TargetDims :
          pad = PendingPad(w, h, tw, th)
    /\ pdf = NoPdf
    /\ bal = NoBal
    /\ IdlePanel
    /\ IdleIo
NextGeometry == PadImage
SpecGeometry == InitGeometry /\ [][NextGeometry]_vars

MaxPages    == 2
DimStep     == 500
MaxDimSteps == 14
DpiStep     == 24
MaxDpiSteps == 7

PageDims  == {k * DimStep : k \in 1..MaxDimSteps} \cup {595, 842}
Dpis      == {k * DpiStep : k \in 1..MaxDpiSteps}
PageIndex == (-(MaxPages + 1))..(MaxPages + 1)

ExtractPdfPage ==
    /\ pdf.status = "pending"
    /\ pdf' = extract_pdf_page_bytes(pdf)
    /\ UNCHANGED <<pad, bal, panelVars, appended, ioVars>>

InitRaster ==
    /\ \E count \in 1..MaxPages, index \in PageIndex,
          w \in PageDims, h \in PageDims, dpi \in Dpis :
          pdf = PendingPdf(count, index, w, h, dpi)
    /\ pad = NoPad
    /\ bal = NoBal
    /\ IdlePanel
    /\ IdleIo
NextRaster == ExtractPdfPage
SpecRaster == InitRaster /\ [][NextRaster]_vars

(***************************************************************************)
(* Claims about extract_pdf_page_bytes, checked under SpecRaster.          *)
(***************************************************************************)
PdfCalled == pdf.status \notin {"none", "pending"}

\* C3: whenever the final zoom is above the 0.5 floor, the larger page
\* dimension times the zoom is at most 3000; the larger rendered dimension
\* exceeds 3000 only when the final zoom equals 0.5.
C3_ZoomBoundsRaster ==
    (PdfCalled /\ pdf.page # -1) =>
        LET m == Max(pdf.rect[1], pdf.rect[2])
            z == pdf.zoom
        IN  /\ ~ZoomLess(z, <<1, 2>>)
            /\ ZoomLess(<<1, 2>>, z) => m * z[1] <= MAX_DIM * z[2]
            /\ Max(pdf.pix[1], pdf.pix[2]) > MAX_DIM => 2 * z[1] = z[2]

\* C3 witness: a page whose base zoom would overshoot is rendered with the
\* capped zoom 3000 / max(w, h), still above the floor, at exactly 3000 pixels.
C3_Witness ==
    /\ PdfCalled /\ pdf.page # -1
    /\ pdf.rect[1] * pdf.dpi > MAX_DIM * 72
    /\ ZoomLess(<<1, 2>>, pdf.zoom)
    /\ pdf.rect[1] > pdf.rect[2]
    /\ pdf.pix[1] = MAX_DIM

\* C4: a page_index outside [0, page_count), negative or too large, fails
\* with an out-of-range error and renders no page.
C4_OutOfRangeFails ==
    (PdfCalled /\ (pdf.page_index < 0 \/ pdf.page_index >= pdf.page_count)) =>
        (pdf.status = "ValueError" /\ pdf.page = -1)

MaxPieces == 4

\* Fragments the balanced texts are built from: whole commands, the halves
\* of a split \right, and plain characters.
Pieces == {LEFT, RIGHT, <<BS, "r", "i">>, <<"g", "h", "t">>,
           <<"a", "r", "r", "o", "w">>, <<"x">>, <<"(">>}

RECURSIVE Concat(_)
Concat(seqs) == IF seqs = <<>> THEN <<>> ELSE Head(seqs) \o Concat(Tail(seqs))

Texts == {Concat(ps) : ps \in UNION {[1..n -> Pieces] : n \in 0..MaxPieces}}

\* balance_latex_delimiters(input)
Balance ==
    /\ bal.passes = 0
    /\ bal' = [bal EXCEPT !.passes = 1,
                          !.output = balance_latex_delimiters(bal.input)]
    /\ UNCHANGED <<pad, pdf, panelVars, appended, ioVars>>

\* balance_latex_delimiters applied to its own result
BalanceAgain ==
    /\ bal.passes = 1
    /\ bal' = [passes |-> 2, input |-> bal.output,
               output |-> balance_latex_delimiters(bal.output)]
    /\ UNCHANGED <<pad, pdf, panelVars, appended, ioVars>>

InitBalance ==
    /\ \E x \in Texts : bal = [NoBal EXCEPT !.input = x]
    /\ pad = NoPad
    /\ pdf = NoPdf
    /\ IdlePanel
    /\ IdleIo
NextBalance == Balance \/ BalanceAgain
SpecBalance == InitBalance /\ [][NextBalance]_vars

(***************************************************************************)
(* Claims about balance_latex_delimiters, checked under SpecBalance.       *)
(***************************************************************************)
\* The text the claims describe: one left-to-right pass that keeps every
\* character, drops a \right met at depth 0, and closes what is still open.
RECURSIVE Described(_, _, _)
Described(s, i, depth) ==
    LET j == NextCommand(s, i)
    IN  IF j = 0 THEN SubSeq(s, i, Len(s)) \o Repeat(CLOSER, depth)
        ELSE IF StartsAt(s, j, LEFT)
        THEN SubSeq(s, i, j + Len(LEFT) - 1)
             \o Described(s, j + Len(LEFT), depth + 1)
        ELSE IF depth > 0
        THEN SubSeq(s, i, j + Len(RIGHT) - 1)
             \o Described(s, j + Len(RIGHT), depth - 1)
        ELSE SubSeq(s, i, j - 1) \o Described(s, j + Len(RIGHT), depth)

\* Number of non-overlapping occurrences of tok in s from position i on.
RECURSIVE CountTok(_, _, _)
CountTok(s, i, tok) ==
    LET j == Find(s, tok, i)
    IN  IF j = 0 THEN 0 ELSE 1 + CountTok(s, j + Len(tok), tok)

\* Final depth of a left-to-right scan of s (\left +1, \right -1), or -1 as
\* soon as a \right is met at depth 0.
RECURSIVE ScanDepth(_, _, _)
ScanDepth(s, i, depth) ==
    LET j == NextCommand(s, i)
    IN  IF j = 0 THEN depth
        ELSE IF StartsAt(s, j, LEFT) THEN ScanDepth(s, j + Len(LEFT), depth + 1)
        ELSE IF depth = 0 THEN -1
        ELSE ScanDepth(s, j + Len(RIGHT), depth - 1)

IsBalancedText(s) == ScanDepth(s, 1, 0) = 0

EndsWith(s, suffix) ==
    /\ Len(suffix) <= Len(s)
    /\ SubSeq(s, Len(s) - Len(suffix) + 1, Len(s)) = suffix

\* C5: the output is the input with every unmatched \right deleted, every
\* other character kept in order, followed by one " \right." per \left still
\* open; with 3 \left and 1 \right it ends in two appended closing sequences.
C5_OutputAsDescribed ==
    bal.passes >= 1 =>
        /\ bal.output = Described(bal.input, 1, 0)
        /\ (CountTok(bal.input, 1, LEFT) = 3 /\ CountTok(bal.input, 1, RIGHT) = 1)
              => EndsWith(bal.output, CLOSER \o CLOSER)

\* C5 witness: a text with 3 \left and 1 \right whose \right comes first, so
\* one command is deleted and closing sequences are appended.
C5_Witness ==
    /\ bal.passes = 1
    /\ CountTok(bal.input, 1, LEFT) = 3
    /\ CountTok(bal.input, 1, RIGHT) = 1
    /\ StartsAt(bal.input, 1, RIGHT)
    /\ CountTok(bal.output, 1, RIGHT) = 3

\* C6: for every input the output is fully balanced: scanned left to right
\* the depth never goes below 0 and ends at 0.
C6_OutputBalanced ==
    bal.passes >= 1 => IsBalancedText(bal.output)

\* C7: a text whose \left and \right are matched in order is returned
\* unchanged, and balancing a balanced result again changes nothing.
C7_Idempotent ==
    /\ (bal.passes >= 1 /\ IsBalancedText(bal.input)) => bal.output = bal.input
    /\ bal.passes = 2 => bal.output = bal.input

\* The letters a TeX command name is made of.
Letters == {"a", "b", "c", "d", "e", "f", "g", "h", "i", "j", "k", "l", "m",
            "n", "o", "p", "q", "r", "s", "t", "u", "v", "w", "x", "y", "z",
            "A", "B", "C", "D", "E", "F", "G", "H", "I", "J", "K", "L", "M",
            "N", "O", "P", "Q", "R", "S", "T", "U", "V", "W", "X", "Y", "Z"}

\* cmd at position j of s is only the beginning of a longer command name.
LongerCommandAt(s, j, cmd) ==
    /\ StartsAt(s, j, cmd)
    /\ j + Len(cmd) <= Len(s)
    /\ s[j + Len(cmd)] \in Letters

\* s holds \left or \right only as the beginning of longer commands
\* (\leftarrow, \rightarrow, ...), and holds at least one of those.
OnlyLongerCommands(s) ==
    /\ NextCommand(s, 1) # 0
    /\ \A j \in 1..Len(s) :
          /\ StartsAt(s, j, LEFT)  => LongerCommandAt(s, j, LEFT)
          /\ StartsAt(s, j, RIGHT) => LongerCommandAt(s, j, RIGHT)

\* C16: only whole \left and \right commands are counted and deleted: a
\* text whose only such tokens are longer commands that begin with those
\* letters (\leftarrow, \rightarrow, ...) is returned unchanged.
C16_LongerCommandsUntouched ==
    (bal.passes >= 1 /\ OnlyLongerCommands(bal.input)) =>
        bal.output = bal.input

MaxChunks == 4

\* Chunks of streamed text: math delimiters, \left, a whole inline span with
\* a character html.escape rewrites, and text that reads like the
\* placeholder token of index 1.
Chunks == {OPEN_INLINE, CLOSE_INLINE, OPEN_DISPLAY, CLOSE_DISPLAY, LEFT,
           Placeholder(1),
           OPEN_INLINE \o <<"x", "'">> \o CLOSE_INLINE}

AppendText ==
    /\ appended < MaxChunks
    /\ \E c \in Chunks : append_text(c)
    /\ appended' = appended + 1
    /\ UNCHANGED <<pad, pdf, bal, ioVars>>

RenderFancyOutput ==
    /\ \E raised \in Steps \cup {"none"} : render_fancy_output(raised)
    /\ UNCHANGED <<pad, pdf, bal, appended, ioVars>>

Clear ==
    /\ clear
    /\ appended' = 0
    /\ UNCHANGED <<pad, pdf, bal, ioVars>>

InitPanel ==
    IdlePanel /\ pad = NoPad /\ pdf = NoPdf /\ bal = NoBal /\ IdleIo
NextPanel == AppendText \/ RenderFancyOutput \/ Clear
SpecPanel == InitPanel /\ [][NextPanel]_vars

(***************************************************************************)
(* Claims about FancyOutput.set_markdown, checked under SpecPanel.         *)
(***************************************************************************)
Rendered == last_render.raised = "none" /\ last_render.raw # <<>>

\* The math spans of md from position i on, as the pattern finds them, in
\* document order.
RECURSIVE RawSpans(_, _)
RawSpans(md, i) ==
    LET j == NextMath(md, i)
    IN  IF j = 0 THEN <<>>
        ELSE <<SubSeq(md, j, MathEnd(md, j) - 1)>> \o RawSpans(md, MathEnd(md, j))

\* The texts of parts occur in s from position i on, one after the other.
RECURSIVE InOrder(_, _, _)
InOrder(s, parts, i) ==
    IF parts = <<>> THEN TRUE
    ELSE LET j == Find(s, Head(parts), i)
         IN  j # 0 /\ InOrder(s, Tail(parts), j + Len(Head(parts)))

\* Restoration in the opposite order: block k, k - 1, ..., 1.
RECURSIVE RestoreBackwards(_, _, _)
RestoreBackwards(html_content, math_blocks, k) ==
    IF k < 1 THEN html_content
    ELSE RestoreBackwards(Replace(html_content, Placeholder(k - 1),
                                  HtmlEscape(math_blocks[k], 1), 1),
                          math_blocks, k - 1)

\* C8: if a step of set_markdown raises, the view ends up showing a blank
\* document, never the document that was displayed before the call.
C8_FailureShowsBlank ==
    last_render.raised # "none" => web_html = BlankDoc

\* C9: restoration replaces only the tokens extraction inserted: text that
\* already read MATHJAXBLOCKPLACEHOLDER<i>END in the raw input is still there
\* after restoration, and restoring in the opposite order gives the same
\* document.
C9_PlaceholdersCollisionFree ==
    Rendered =>
        /\ \A i \in 0..MaxChunks :
              CountTok(last_render.html_content, 1, Placeholder(i))
                  >= CountTok(last_render.raw, 1, Placeholder(i))
        /\ last_render.html_content
              = RestoreBackwards(Markdown(last_render.processed_md),
                                 last_render.math_blocks,
                                 Len(last_render.math_blocks))

\* C10: for raw text with k math spans, exactly k balanced spans are stored
\* in document order, and after restoration the body contains the k escaped
\* spans in their original order with no placeholder token left (none beyond
\* the text of that form the raw input itself carried).
C10_SpansRestoredInOrder ==
    Rendered =>
        LET spans  == RawSpans(last_render.raw, 1)
            blocks == last_render.math_blocks
        IN  /\ Len(blocks) = Len(spans)
            /\ \A k \in 1..Len(spans) :
                  blocks[k] = balance_latex_delimiters(spans[k])
            /\ InOrder(last_render.html_content,
                       [k \in 1..Len(blocks) |-> HtmlEscape(blocks[k], 1)], 1)
            /\ \A i \in 0..MaxChunks :
                  CountTok(last_render.html_content, 1, Placeholder(i))
                      <= CountTok(last_render.raw, 1, Placeholder(i))

\* C15: every stored math span still begins with its opening delimiter and
\* ends with the matching closing delimiter after balancing, so an added
\* " \right." lies inside the delimiters.
C15_SpansKeepDelimiters ==
    Rendered =>
        \A k \in 1..Len(last_render.math_blocks) :
            LET b == last_render.math_blocks[k]
            IN  \/ StartsAt(b, 1, OPEN_DISPLAY) /\ EndsWith(b, CLOSE_DISPLAY)
                \/ StartsAt(b, 1, OPEN_INLINE) /\ EndsWith(b, CLOSE_INLINE)

(***************************************************************************)
(* Image ingest: get_image_bytes on the files of the model.                *)
(***************************************************************************)
MaxIngestDim == 2

Modes      == {"1", "L", "LA", "P", "PA", "RGB", "RGBA", "CMYK", "YCbCr"}
IngestDims == (1..MaxIngestDim) \cup {TARGET_IMAGE_SIZE, 5000}

\* The images a file can decode to: the 'transparency' key comes with the
\* modes a PNG colour key or palette is stored in, and a pixel can be
\* transparent only where the image has an alpha band or that key.
Images ==
    {img \in [mode : Modes, transparency : BOOLEAN,
              size : IngestDims \X IngestDims, clear : BOOLEAN,
              colour : {WHITE, BLACK}] :
        /\ img.transparency => img.mode \in {"P", "L", "RGB"}
        /\ img.clear => (img.mode \in AlphaModes \/ img.transparency)}

GetImageBytes ==
    /\ ingest.status = "pending"
    /\ ingest' = get_image_bytes(ingest)
    /\ UNCHANGED <<pad, pdf, bal, panelVars, appended, loader>>

InitIngest ==
    /\ \E img \in Images, raised \in IngestSteps \cup {"none"} :
          ingest = PendingIngest(img, raised)
    /\ loader = NoLoader
    /\ pad = NoPad
    /\ pdf = NoPdf
    /\ bal = NoBal
    /\ IdlePanel
NextIngest == GetImageBytes
SpecIngest == InitIngest /\ [][NextIngest]_vars

(***************************************************************************)
(* Claims about preprocess_image and get_image_bytes, checked under        *)
(* SpecIngest.                                                             *)
(***************************************************************************)
IngestCalled == ingest.status \notin {"none", "pending"}

\* The image carries an alpha band or palette transparency.
CarriesTransparency(img) ==
    img.mode \in AlphaModes \/ (img.mode = "P" /\ img.transparency)

\* C12: for every input mode, pad_image is handed an opaque RGB image: an
\* image with an alpha band or palette transparency is first composited over
\* white, so its transparent pixels come out white; every other non-RGB mode
\* is converted to RGB; and when pad_image returns, the result is the
\* TARGET_IMAGE_SIZE canvas encoded without an alpha band.
C12_TransparencyFlattened ==
    (IngestCalled /\ ingest.pre.handed # "none") =>
        LET img == ingest.img
            pre == ingest.pre
        IN  /\ pre.handed = "RGB"
            /\ CarriesTransparency(img) =>
                  /\ pre.branch = "flatten"
                  /\ img.clear => pre.pixel = WHITE
            /\ (~CarriesTransparency(img) /\ img.mode # "RGB") =>
                  pre.branch = "convert"
            /\ pre.pad.status \in {"ok", "ValueError", "OSError"}
            /\ pre.pad.target = <<TARGET_IMAGE_SIZE, TARGET_IMAGE_SIZE>>
            /\ pre.status = "ok" =>
                  /\ pre.png.mode = "RGB"
                  /\ pre.png.size = <<TARGET_IMAGE_SIZE, TARGET_IMAGE_SIZE>>

\* C13: for a file whose bytes can be read, get_image_bytes never raises; if
\* loading or any preprocessing step (mode conversion, pad_image, PNG
\* encoding) raised it returns exactly the raw bytes of the file, otherwise
\* the canonical PNG bytes; the result is always one of the two.
C13_RawOrPng ==
    IngestCalled =>
        LET failed == \/ ingest.raised # "none"
                      \/ ingest.pre.pad.status \in {"ValueError", "ZeroDivisionError"}
            raw    == RawBytes(ingest.img)
            png    == [kind |-> "png", mode |-> "RGB",
                       size |-> <<TARGET_IMAGE_SIZE, TARGET_IMAGE_SIZE>>,
                       pixel |-> ingest.pre.pixel]
        IN  /\ ingest.status = "returned"
            /\ failed => ingest.result = raw
            /\ ~failed => ingest.result = png
            /\ ingest.result \in {raw, png}

\* C13 witness: pad_image raised inside preprocess_image (a 1 x 5000 image
\* scales to an empty size) and the raw bytes of the file were returned.
C13_Witness ==
    /\ ingest.status = "returned"
    /\ ingest.raised = "none"
    /\ ingest.img.size = <<1, 5000>>
    /\ ingest.pre.pad.status = "ValueError"
    /\ ingest.result = RawBytes(ingest.img)

(***************************************************************************)
(* ImageLoaderThread: run() in the worker thread against cancel() in the   *)
(* caller's thread.                                                        *)
(***************************************************************************)
MaxCancels == 2

\* What a thread is created for: an image file (page_index -1) that decodes
\* or not, or page page_index of a one-page document.
LoaderImages ==
    {PendingIngest([mode |-> "RGBA", transparency |-> FALSE, size |-> <<2, 1>>,
                    clear |-> TRUE, colour |-> BLACK], raised) :
        raised \in {"none", "open"}}
LoaderPages == {PendingPdf(1, index, 595, 842, 144) : index \in 0..MaxPages}

\* QThread.start(): the worker thread enters run().
Start ==
    /\ loader.pc = "created"
    /\ loader' = [loader EXCEPT !.pc = "line26"]
    /\ UNCHANGED <<pad, pdf, bal, panelVars, appended, ingest>>

\* Line 26: if self._is_cancelled: return
RunCheckStart ==
    /\ loader.pc = "line26"
    /\ loader' = [loader EXCEPT
                     !.pc = IF loader.is_cancelled THEN "finished" ELSE "line28"]
    /\ UNCHANGED <<pad, pdf, bal, panelVars, appended, ingest>>

\* Lines 28-33: load the bytes; an exception goes to the handler of line 38.
RunLoad ==
    /\ loader.pc = "line28"
    /\ LET loaded(r) ==
               [loader EXCEPT
                   !.pc = IF r.raised = "none" THEN "line36" ELSE "line39",
                   !.img_bytes = r.img_bytes,
                   !.exception = r.raised]
       IN  loader' = loaded(Load(loader))
    /\ UNCHANGED <<pad, pdf, bal, panelVars, appended, ingest>>

\* Line 36: if not self._is_cancelled
RunCheckLoaded ==
    /\ loader.pc = "line36"
    /\ loader' = [loader EXCEPT
                     !.pc = IF loader.is_cancelled THEN "finished" ELSE "line37"]
    /\ UNCHANGED <<pad, pdf, bal, panelVars, appended, ingest>>

\* Line 37: self.image_loaded.emit(img_bytes)
RunEmitLoaded ==
    /\ loader.pc = "line37"
    /\ loader' = [loader EXCEPT
                     !.pc = "finished",
                     !.emitted = Emit(loader, "image_loaded", loader.img_bytes)]
    /\ UNCHANGED <<pad, pdf, bal, panelVars, appended, ingest>>

\* Line 39: if not self._is_cancelled
RunCheckError ==
    /\ loader.pc = "line39"
    /\ loader' = [loader EXCEPT
                     !.pc = IF loader.is_cancelled THEN "finished" ELSE "line40"]
    /\ UNCHANGED <<pad, pdf, bal, panelVars, appended, ingest>>

\* Line 40: self.error_occurred.emit(str(e))
RunEmitError ==
    /\ loader.pc = "line40"
    /\ loader' = [loader EXCEPT
                     !.pc = "finished",
                     !.emitted = Emit(loader, "error_occurred", loader.exception)]
    /\ UNCHANGED <<pad, pdf, bal, panelVars, appended, ingest>>

\* Line 44 of cancel(): self._is_cancelled = True
Cancel ==
    /\ loader.pc # "none"
    /\ loader.cancel_pc = "idle"
    /\ loader.cancels < MaxCancels
    /\ loader' = [loader EXCEPT !.is_cancelled = TRUE, !.cancel_pc = "line45",
                                !.cancels = @ + 1]
    /\ UNCHANGED <<pad, pdf, bal, panelVars, appended, ingest>>

\* Line 45 of cancel(): self.wait(3000) returns once the thread has finished
\* (or was never started), or after three seconds wherever run() is.
CancelWait ==
    /\ loader.cancel_pc = "line45"
    /\ loader' = [loader EXCEPT !.cancel_pc = "idle"]
    /\ UNCHANGED <<pad, pdf, bal, panelVars, appended, ingest>>

InitLoader ==
    /\ \/ \E image \in LoaderImages : loader = NewLoader(-1, image, NoPdf)
       \/ \E page \in LoaderPages :
             loader = NewLoader(page.page_index, NoIngest, page)
    /\ ingest = NoIngest
    /\ pad = NoPad
    /\ pdf = NoPdf
    /\ bal = NoBal
    /\ IdlePanel
NextLoader ==
    \/ Start \/ RunCheckStart \/ RunLoad \/ RunCheckLoaded \/ RunEmitLoaded
    \/ RunCheckError \/ RunEmitError \/ Cancel \/ CancelWait
SpecLoader == InitLoader /\ [][NextLoader]_vars

(***************************************************************************)
(* Claims about ImageLoaderThread, checked under SpecLoader.               *)
(***************************************************************************)
\* C14: in every interleaving of run() with cancel(), no image_loaded and no
\* error_occurred signal is emitted once cancel() has set the flag.
C14_NothingAfterCancel ==
    \A k \in 1..Len(loader.emitted) : ~loader.emitted[k].after_cancel

====
